---- MODULE Spec2Model ----
(***************************************************************************)
(* The UM-32 universal machine of um-32.c: eight 32-bit registers, a       *)
(* growable table M of memory arrays, the program counter PC and the       *)
(* fetch-decode-execute loop um_32_spin_cycle.                             *)
(*                                                                         *)
(* A uint32_t is the pair <<hi, lo>> of its two 16-bit halves (value       *)
(* hi * 2^16 + lo): the model checker's integers are 32-bit signed, so a   *)
(* platter such as 0xD0000048 is not one of its integers.  All arithmetic  *)
(* on platters is done on the halves and wraps at 2^32 as uint32_t does.   *)
(***************************************************************************)
EXTENDS Integers, Sequences, FiniteSets, TLC

VARIABLES PC, R, M, memarr_count, halted, m0, inst, heap, status, out, eof, fetches, prog

vars == <<PC, R, M, memarr_count, halted, m0, inst, heap, status, out, eof, fetches, prog>>

(***************************************************************************)
(* uint32_t                                                                *)
(***************************************************************************)
H16 == 65536

W(hi, lo) == <<hi, lo>>

Hi(w) == w[1]

Lo(w) == w[2]

Zero == W(0, 0)

\* Ones in the low byte only.
ByteOnes == W(0, 255)

AllOnes == W(H16 - 1, H16 - 1)

\* A small non-negative int as a uint32_t.
OfNat(n) == W((n \div H16) % H16, n % H16)

\* w < n, for a uint32_t w and a non-negative int n <= 2^16.
Below(w, n) == Hi(w) = 0 /\ Lo(w) < n

\* The halves added each on its own, no carry between them.
WAddHalves(a, b) == W((Hi(a) + Hi(b)) % H16, (Lo(a) + Lo(b)) % H16)

\* a + b modulo 2^32
WAdd(a, b) ==
    LET lo == Lo(a) + Lo(b)
    IN  W((Hi(a) + Hi(b) + lo \div H16) % H16, lo % H16)

\* The low 16 bits of x * y, for 16-bit x and y.
MulLo16(x, y) ==
    ((x % 256) * (y % 256) + (((x \div 256) * (y % 256) + (x % 256) * (y \div 256)) % 256) * 256) % H16

\* The high 16 bits of the 32-bit product x * y, for 16-bit x and y.
MulHi16(x, y) ==
    LET mid == (x \div 256) * (y % 256) + (x % 256) * (y \div 256)
        low == (x % 256) * (y % 256) + (mid % 256) * 256
    IN  (x \div 256) * (y \div 256) + mid \div 256 + low \div H16

\* a * b modulo 2^32
WMul(a, b) ==
    W((MulHi16(Lo(a), Lo(b)) + MulLo16(Hi(a), Lo(b)) + MulLo16(Lo(a), Hi(b))) % H16,
      MulLo16(Lo(a), Lo(b)))

\* a < b as unsigned 32-bit numbers
WLess(a, b) == Hi(a) < Hi(b) \/ (Hi(a) = Hi(b) /\ Lo(a) < Lo(b))

\* a - b modulo 2^32
WSub(a, b) ==
    LET lo == Lo(a) - Lo(b)
        br == IF lo < 0 THEN 1 ELSE 0
    IN  W((Hi(a) - Hi(b) - br + 2 * H16) % H16, (lo + H16) % H16)

\* a >> 1
WShr1(a) == W(Hi(a) \div 2, (Lo(a) \div 2) + (Hi(a) % 2) * (H16 \div 2))

\* Unsigned floor division a / b for b # 0, by shift and subtract: with
\* q = (a >> 1) / b and r = (a >> 1) - q * b, a / b is 2q or 2q + 1.
RECURSIVE WDiv(_, _)
WDiv(a, b) ==
    IF WLess(a, b) THEN Zero
    ELSE IF Hi(a) < H16 \div 2
         THEN OfNat((Hi(a) * H16 + Lo(a)) \div (Hi(b) * H16 + Lo(b)))
         ELSE LET h   == WShr1(a)
                  q   == WDiv(h, b)
                  r   == WSub(h, WMul(q, b))
                  q2  == WAdd(q, q)
                  bit == OfNat(Lo(a) % 2)
                  \* 2r + bit >= b, without forming 2r
                  up  == ~WLess(WAdd(r, bit), WSub(b, r))
              IN  IF up THEN WAdd(q2, OfNat(1)) ELSE q2

\* x & y for 16-bit x and y
RECURSIVE And16(_, _, _)
And16(x, y, n) ==
    IF n = 0 THEN 0
    ELSE (x % 2) * (y % 2) + 2 * And16(x \div 2, y \div 2, n - 1)

\* ~(a & b)
WNand(a, b) ==
    W(H16 - 1 - And16(Hi(a), Hi(b), 16), H16 - 1 - And16(Lo(a), Lo(b), 16))

(***************************************************************************)
(* Decoding (the shifts and masks of the loop body)                        *)
(***************************************************************************)
\* The operator taken from three bits only.
OpNum3(i) == (Hi(i) \div 4096) % 8

\* (inst >> 28) & 0xf
OpNum(i) == Hi(i) \div 4096

\* (inst >> 6) & 0x7
RegA(i) == (Lo(i) \div 64) % 8

\* (inst >> 3) & 0x7
RegB(i) == (Lo(i) \div 8) % 8

\* (inst >> 0) & 0x7
RegC(i) == Lo(i) % 8

\* The register taken from the standard form's A field.
OrthRegStandard(i) == (Lo(i) \div 64) % 8

\* (inst >> 25) & 0x7
OrthReg(i) == (Hi(i) \div 512) % 8

\* inst & 0x1ffffff
OrthVal(i) == W(Hi(i) % 512, Lo(i))

(***************************************************************************)
(* printf: the text written to stdout, as character codes                  *)
(***************************************************************************)
WDiv10(w) == W(Hi(w) \div 10, ((Hi(w) % 10) * H16 + Lo(w)) \div 10)

WMod10(w) == ((Hi(w) % 10) * H16 + Lo(w)) % 10

\* %u and %lu
RECURSIVE FmtU(_)
FmtU(w) ==
    IF Below(w, 10) THEN <<48 + Lo(w)>>
    ELSE FmtU(WDiv10(w)) \o <<48 + WMod10(w)>>

\* %d of a 32-bit argument
FmtD(w) ==
    IF Hi(w) >= H16 \div 2 THEN <<45>> \o FmtU(WSub(Zero, w)) ELSE FmtU(w)

HexDigit(d) == IF d < 10 THEN 48 + d ELSE 87 + d

RECURSIVE FmtX(_)
FmtX(w) ==
    IF Below(w, 16) THEN <<HexDigit(Lo(w))>>
    ELSE FmtX(W(Hi(w) \div 16, ((Hi(w) % 16) * H16 + Lo(w)) \div 16)) \o <<HexDigit(Lo(w) % 16)>>

\* %02x
FmtX02(w) == IF Below(w, 16) THEN <<48>> \o FmtX(w) ELSE FmtX(w)

OpNames ==
    << <<99, 109, 111, 118>>,                      \* cmov
       <<97, 114, 114, 105, 110, 100>>,            \* arrind
       <<97, 114, 114, 97, 109, 101, 110, 100>>,   \* arramend
       <<97, 100, 100>>,                           \* add
       <<109, 117, 108>>,                          \* mul
       <<100, 105, 118>>,                          \* div
       <<110, 97, 110, 100>>,                      \* nand
       <<104, 97, 108, 116>>,                      \* halt
       <<97, 108, 108, 111, 99>>,                  \* alloc
       <<97, 98, 97, 110, 100, 111, 110>>,         \* abandon
       <<111, 117, 116, 112, 117, 116>>,           \* output
       <<105, 110, 112, 117, 116>>,                \* input
       <<108, 111, 97, 100, 112, 114, 111, 103>>,  \* loadprog
       <<111, 114, 116, 104, 111, 103>> >>         \* orthog

um_32_op_name(op) ==
    IF op < 14 THEN OpNames[op + 1]
    ELSE <<85, 78, 75, 78, 79, 87, 78, 79, 80>>    \* UNKNOWNOP

\* "%s\tA:%d\tB:%d\tC:%d\n"
um_32_print_debug_inst(i) ==
    um_32_op_name(OpNum(i))
        \o <<9, 65, 58>> \o FmtD(OfNat(RegA(i)))
        \o <<9, 66, 58>> \o FmtD(OfNat(RegB(i)))
        \o <<9, 67, 58>> \o FmtD(OfNat(RegC(i))) \o <<10>>

RECURSIVE PrintRegs(_, _)
PrintRegs(r, i) ==
    IF i = 8 THEN <<>>
    ELSE <<82, 91>> \o FmtD(OfNat(i)) \o <<93, 61>> \o FmtU(r[i]) \o <<32>> \o PrintRegs(r, i + 1)

\* "PC=%lu " then "R[%d]=%u " for each register, then "\n"
um_32_print_debug_state(pc, r) ==
    <<80, 67, 61>> \o FmtU(pc) \o <<32>> \o PrintRegs(r, 0) \o <<10>>

\* What EXCEPTION(inst) prints before its assert(false) aborts the process.
ExceptionText(i, pc, r) == um_32_print_debug_inst(i) \o um_32_print_debug_state(pc, r)

(***************************************************************************)
(* Bounds of the model                                                     *)
(***************************************************************************)
\* Instructions fetched in one run.
MaxFetch == 9

\* Entries of the array table M.
MaxSegs == 3

\* Platters of one calloc'ed array.
MaxCap == 4

(***************************************************************************)
(* The machine's memory                                                    *)
(*                                                                         *)
(* heap is the sequence of the buffers malloc and calloc returned, each a  *)
(* sequence of platters; a pointer is an index into heap.  No buffer is    *)
(* ever freed by the program.  A Mem is [inst, len, active] as in the      *)
(* struct: inst a pointer, len a uint32_t count, active a flag.            *)
(***************************************************************************)
\* A pointer read from outside the table M: it points at no buffer.
Wild == 0

\* The values a read of memory the program does not own may produce.
Garbage == {Zero, W(0, 1), AllOnes}

\* The bytes getchar may deliver.
InputBytes == {0, 1, 2, 72}

Regs == 0 .. 7

\* PC += 1 on the 64-bit PC: the high half is not reduced modulo 2^16.
PCInc(pc) == IF Lo(pc) = H16 - 1 THEN W(Hi(pc) + 1, 0) ELSE W(Hi(pc), Lo(pc) + 1)

\* The platters the table entry m holds in the heap h, as far as its buffer
\* reaches.
PlattersIn(h, m) == IF m.inst = Wild THEN <<>> ELSE h[m.inst]

Platters(m) == PlattersIn(heap, m)

(***************************************************************************)
(* Program buffers given to um_32_init                                     *)
(***************************************************************************)
\* A standard-form instruction word.
Std(op, a, b, c) == W(op * 4096, a * 64 + b * 8 + c)

\* An orthography word loading the 25-bit value v into register a.
Imm(a, v) == W(13 * 4096 + a * 512 + Hi(v), Lo(v))

\* The four bytes of a platter in the program file, most significant first.
BytesOf(w) == <<Hi(w) \div 256, Hi(w) % 256, Lo(w) \div 256, Lo(w) % 256>>

RECURSIVE FileOf(_)
FileOf(ws) == IF ws = <<>> THEN <<>> ELSE BytesOf(Head(ws)) \o FileOf(Tail(ws))

Halt7 == Std(7, 0, 0, 0)

\* Three inputs into R1..R3, then one instruction on them, then halt.
OneOp ==
    { <<Std(11, 0, 0, 1), Std(11, 0, 0, 2), Std(11, 0, 0, 3), Std(op, abc[1], abc[2], abc[3]), Halt7>> :
        op \in 0 .. 15, abc \in {<<4, 1, 2>>, <<1, 2, 3>>, <<3, 3, 1>>} }

\* An array of R1 platters is made, written and read at input offsets.
ArrayOps ==
    { <<Std(11, 0, 0, 1), Std(8, 0, 2, 1), Std(11, 0, 0, 3), Std(11, 0, 0, 4),
        Std(2, 2, 3, 4), Std(1, 5, 2, 3), Std(9, 0, 0, x), Std(1, 6, 2, 3), Halt7>> : x \in {2, 3} }

\* An array is made and loaded as the program, with the finger at R3.
Loads ==
    { <<Imm(1, W(0, n)), Std(8, 0, 2, 1), Std(11, 0, 0, 3), Std(12, 0, b, 3), Halt7>> :
        n \in 0 .. 2, b \in {0, 2, 3} }

\* An array of one platter is made and loaded with the finger at the
\* amendment that follows; the amendment writes R4 to offset 0 of array R[a],
\* and both arrays are read back.
Aliased ==
    { <<Imm(1, W(0, 1)), Std(8, 0, 2, 1), Imm(3, W(0, 5)), Std(11, 0, 0, 4), Std(12, 0, 2, 3),
        Std(2, a, 0, 4), Std(1, 6, 0, 0), Std(1, 7, 2, 0), Halt7>> : a \in {0, 2} }

\* An array is made, abandoned (or not) and then loaded; array 0 is read.
Abandoned ==
    { <<Imm(1, W(0, 1)), Std(8, 0, 2, 1), Std(9, 0, 0, c), Imm(3, W(0, 5)), Std(12, 0, 2, 3),
        Std(1, 6, 0, 0), Halt7>> : c \in {2, 4} }

\* An array of 2^15 * 2^15 platters is asked for and read.
Huge ==
    { <<Imm(1, W(0, 32768)), Std(4, 1, 1, 1), Imm(3, W(0, n)), Std(3, 1, 1, 3), Std(8, 0, 2, 1),
        Std(1, 4, 2, 0), Halt7>> : n \in {0, 1} }

\* One orthography instruction for each register and a range of values.
Immediates ==
    { <<Imm(r, v), Halt7>> :
        r \in Regs, v \in {Zero, W(0, 1), W(0, 448), W(0, 511), W(1, 0), W(511, H16 - 1)} }

\* A value is loaded into R0 and sent to the console.
Printing ==
    { <<Imm(0, W(0, v)), Std(10, 0, 0, 0), Halt7>> : v \in {72, 7} }

\* A standard-form word with every bit outside its fields (27..9) set.
StdJunk(op, a, b, c) == W(op * 4096 + 4095, 65024 + a * 64 + b * 8 + c)

\* R1 = 1, R3 = 4 and R2 = a new array of one platter; then one word of each
\* operator number with the bits outside its fields set; then halt (platter 4).
Junk ==
    { <<Imm(1, W(0, 1)), Imm(3, W(0, 4)), Std(8, 0, 2, 1), StdJunk(op, abc[1], abc[2], abc[3]), Halt7>> :
        op \in 0 .. 15, abc \in {<<5, 1, 1>>, <<5, 0, 1>>, <<0, 1, 1>>, <<0, 0, 2>>, <<0, 0, 3>>} }

\* An array of one platter is made and abandoned; R[v] is then written to
\* offset 22 of array 0, which has 7 platters, and array R[b] is read.
PastTheEnd ==
    { <<Imm(1, W(0, 1)), Std(8, 0, 2, 1), Std(9, 0, 0, 2), Imm(3, W(0, 22)), Std(2, 0, 3, v),
        Std(1, 5, b, 0), Halt7>> : v \in {0, 1}, b \in {0, 2} }

\* The amendment at platter 2 stores R5 = 2 in platter 3 of array 0, the
\* platter that follows it.  It is jumped over at first, and reached from
\* platter 7 by a Load Program of array 0 (R[0] = 0) or of a new array of 4
\* platters (R[2]).
SelfModifying ==
    { <<Imm(1, W(0, 4)), Std(12, 0, 0, 1), Std(2, 0, 3, 5), Halt7, Std(8, 0, 2, 1),
        Imm(3, W(0, 3)), Imm(5, W(0, 2)), Std(12, 0, x, 5)>> : x \in {0, 2} }

Programs ==
    OneOp \cup ArrayOps \cup Loads \cup Aliased \cup Abandoned \cup Huge \cup Immediates \cup Printing
        \cup Junk \cup PastTheEnd \cup SelfModifying

\* Files whose length um_32_init's assert rejects.
BadFiles == {<<>>, <<112, 0, 0>>, <<112, 0, 0, 0, 0>>}

Files == {FileOf(p) : p \in Programs} \cup BadFiles

(***************************************************************************)
(* um_32_init                                                              *)
(***************************************************************************)
\* The four bytes taken least significant first.
InitWordLE(data, i) == W(data[i + 4] * 256 + data[i + 3], data[i + 2] * 256 + data[i + 1])

\* prog.data[i] << 24 | prog.data[i+1] << 16 | prog.data[i+2] << 8 | prog.data[i+3]
InitWord(data, i) == W(data[i + 1] * 256 + data[i + 2], data[i + 3] * 256 + data[i + 4])

InitProgram(data) == [k \in 1 .. (Len(data) \div 4) |-> InitWord(data, 4 * (k - 1))]

\* PC = 0, memset(R, 0, 4 * 8), halted = false
Zeroed ==
    /\ PC = Zero
    /\ R = [r \in Regs |-> Zero]
    /\ halted = FALSE

um_32_init(data) ==
    /\ prog = data
    /\ Zeroed
    /\ inst = Zero
    /\ out = <<>>
    /\ eof = FALSE
    /\ fetches = 0
    /\ IF Len(data) # 0 /\ Len(data) % 4 = 0
       THEN /\ heap = <<InitProgram(data)>>
            /\ M = [k \in {0} |-> [inst |-> 1, len |-> OfNat(Len(data) \div 4), active |-> TRUE]]
            /\ memarr_count = 1
            /\ m0 = M[0]
            /\ status = "running"
       ELSE \* assert(prog.len && prog.len % 4 == 0) aborts; an empty file is
            \* refused before it, by read_entire_file's fread
            /\ heap = <<>>
            /\ M = <<>>
            /\ memarr_count = 0
            /\ m0 = [inst |-> Wild, len |-> Zero, active |-> FALSE]
            /\ status = "faulted"

Init == \E data \in Files : um_32_init(data)

(***************************************************************************)
(* um_32_spin_cycle: one action per case of the switch.  m0 is the copy of *)
(* M[0] the function takes before its loop; the loop tests and fetches     *)
(* through it.                                                             *)
(***************************************************************************)
\* m0.inst[PC]
Fetched == heap[m0.inst][Lo(PC) + 1]

\* A fetch that tests neither the loop's guard nor the state of the process.
FetchRegardless(op) ==
    /\ WLess(PC, m0.len)
    /\ fetches < MaxFetch
    /\ OpNum(Fetched) = op
    /\ inst' = Fetched
    /\ fetches' = fetches + 1
    /\ prog' = prog

\* One pass of the loop as far as the switch, for an instruction of operator op.
Fetch(op) ==
    /\ status = "running"
    /\ ~halted
    /\ WLess(PC, m0.len)
    /\ fetches < MaxFetch
    /\ OpNum(Fetched) = op
    /\ inst' = Fetched
    /\ fetches' = fetches + 1
    /\ prog' = prog

\* EXCEPTION(i): the diagnostics, then assert(false).
Raise(i, pc) ==
    /\ status' = "faulted"
    /\ out' = out \o ExceptionText(i, pc, R)

\* The process is killed by a signal (SIGSEGV, SIGFPE): nothing is printed.
Trap ==
    /\ status' = "trapped"
    /\ out' = out

Continue ==
    /\ status' = status
    /\ out' = out

\* if (PC >= m0.len) EXCEPTION(0)
OutOfCode ==
    /\ status = "running"
    /\ ~halted
    /\ ~WLess(PC, m0.len)
    /\ Raise(Zero, PC)
    /\ UNCHANGED <<PC, R, M, memarr_count, halted, m0, inst, heap, eof, fetches, prog>>

CMov ==
    /\ Fetch(0)
    /\ PC' = PCInc(PC)
    /\ R' = IF R[RegC(Fetched)] # Zero
            THEN [R EXCEPT ![RegA(Fetched)] = R[RegB(Fetched)]]
            ELSE R
    /\ UNCHANGED <<M, memarr_count, halted, m0, heap, status, out, eof>>

\* !M[idx].active || idx > (memarr_count - 1), for idx inside the table
Rejected(idx) == ~M[Lo(idx)].active

ArrayIndex ==
    /\ Fetch(1)
    /\ PC' = PCInc(PC)
    /\ LET idx == R[RegB(Fetched)]
           off == R[RegC(Fetched)]
       IN  IF ~Below(idx, memarr_count)
           THEN \* M[idx].active is read past the table: whatever it holds,
                \* one side of the test is true, unless the read itself traps
                /\ Raise(Fetched, PC') \/ Trap
                /\ R' = R
           ELSE IF Rejected(idx)
           THEN Raise(Fetched, PC') /\ R' = R
           ELSE IF Below(off, Len(Platters(M[Lo(idx)])) )
           THEN R' = [R EXCEPT ![RegA(Fetched)] = Platters(M[Lo(idx)])[Lo(off) + 1]] /\ Continue
           ELSE \* M[idx].inst[off] is read past the buffer
                \/ \E v \in Garbage : R' = [R EXCEPT ![RegA(Fetched)] = v] /\ Continue
                \/ R' = R /\ Trap
    /\ UNCHANGED <<M, memarr_count, halted, m0, heap, eof>>

ArrayAmend ==
    /\ Fetch(2)
    /\ PC' = PCInc(PC)
    /\ LET idx == R[RegA(Fetched)]
           off == R[RegB(Fetched)]
           val == R[RegC(Fetched)]
       IN  IF ~Below(idx, memarr_count)
           THEN /\ Raise(Fetched, PC') \/ Trap
                /\ heap' = heap
                /\ M' = M
           ELSE IF Rejected(idx)
           THEN Raise(Fetched, PC') /\ heap' = heap /\ M' = M
           ELSE IF Below(off, Len(Platters(M[Lo(idx)])))
           THEN /\ heap' = [heap EXCEPT ![M[Lo(idx)].inst][Lo(off) + 1] = val]
                /\ M' = M
                /\ Continue
           ELSE \* M[idx].inst[off] is written past the buffer: the store
                \* traps, lands on memory no array owns, lands in another
                \* buffer, or lands in the table M, which malloc placed in
                \* the same heap: on the pointer, the length or the flag of
                \* one of its entries
                \/ heap' = heap /\ M' = M /\ Trap
                \/ heap' = heap /\ M' = M /\ Continue
                \/ \E q \in 1 .. Len(heap) : \E j \in 1 .. Len(heap[q]) :
                       /\ q # M[Lo(idx)].inst
                       /\ heap' = [heap EXCEPT ![q][j] = val]
                       /\ M' = M
                       /\ Continue
                \/ \E j \in 0 .. (memarr_count - 1) :
                       /\ \/ M' = [M EXCEPT ![j].inst = Wild]
                          \/ M' = [M EXCEPT ![j].len = val]
                          \/ M' = [M EXCEPT ![j].active = (Lo(val) % 256 # 0)]
                       /\ heap' = heap
                       /\ Continue
    /\ UNCHANGED <<R, memarr_count, halted, m0, eof>>

Add ==
    /\ Fetch(3)
    /\ PC' = PCInc(PC)
    /\ R' = [R EXCEPT ![RegA(Fetched)] = WAdd(R[RegB(Fetched)], R[RegC(Fetched)])]
    /\ UNCHANGED <<M, memarr_count, halted, m0, heap, status, out, eof>>

Mul ==
    /\ Fetch(4)
    /\ PC' = PCInc(PC)
    /\ R' = [R EXCEPT ![RegA(Fetched)] = WMul(R[RegB(Fetched)], R[RegC(Fetched)])]
    /\ UNCHANGED <<M, memarr_count, halted, m0, heap, status, out, eof>>

Div ==
    /\ Fetch(5)
    /\ PC' = PCInc(PC)
    /\ IF R[RegC(Fetched)] # Zero
       THEN R' = [R EXCEPT ![RegA(Fetched)] = WDiv(R[RegB(Fetched)], R[RegC(Fetched)])] /\ Continue
       ELSE \* R[reg_b] / 0 is undefined: the division traps (SIGFPE) or
            \* delivers some value
            \/ R' = R /\ Trap
            \/ \E v \in Garbage : R' = [R EXCEPT ![RegA(Fetched)] = v] /\ Continue
    /\ UNCHANGED <<M, memarr_count, halted, m0, heap, eof>>

Nand ==
    /\ Fetch(6)
    /\ PC' = PCInc(PC)
    /\ R' = [R EXCEPT ![RegA(Fetched)] = WNand(R[RegB(Fetched)], R[RegC(Fetched)])]
    /\ UNCHANGED <<M, memarr_count, halted, m0, heap, status, out, eof>>

\* halted = true; the loop ends and "\nProgram halted.\n" is printed.
Halt ==
    /\ Fetch(7)
    /\ PC' = PCInc(PC)
    /\ halted' = TRUE
    /\ status' = "halted"
    /\ out' = out \o <<10, 80, 114, 111, 103, 114, 97, 109, 32, 104, 97, 108, 116, 101, 100, 46, 10>>
    /\ UNCHANGED <<R, M, memarr_count, m0, heap, eof>>

\* The platters calloc(1, R[reg_c] * 4) provides: the product is a uint32_t.
CallocWords(size) == WShr1(WShr1(WMul(size, W(0, 4))))

\* "Allocating memory (%d -> %d) %d bytes.\n"
AllocText(count, size) ==
    <<65, 108, 108, 111, 99, 97, 116, 105, 110, 103, 32, 109, 101, 109, 111, 114, 121, 32, 40>>
        \o FmtD(OfNat(count)) \o <<32, 45, 62, 32>> \o FmtD(OfNat(count + 1))
        \o <<41, 32>> \o FmtD(WMul(size, W(0, 4)))
        \o <<32, 98, 121, 116, 101, 115, 46, 10>>

Alloc ==
    /\ Fetch(8)
    /\ PC' = PCInc(PC)
    /\ memarr_count < MaxSegs
    /\ LET size == R[RegC(Fetched)]
           idx  == memarr_count
       IN  /\ Below(CallocWords(size), MaxCap + 1)
           /\ out' = out \o AllocText(memarr_count, size)
           /\ memarr_count' = memarr_count + 1
           /\ heap' = Append(heap, [k \in 1 .. Lo(CallocWords(size)) |-> Zero])
           /\ M' = [k \in 0 .. idx |->
                      IF k < idx THEN M[k]
                      ELSE [inst |-> Len(heap) + 1, len |-> size, active |-> TRUE]]
           /\ R' = [R EXCEPT ![RegB(Fetched)] = OfNat(idx)]
    /\ UNCHANGED <<halted, m0, status, eof>>

Abandon ==
    /\ Fetch(9)
    /\ PC' = PCInc(PC)
    /\ LET idx == R[RegC(Fetched)]
       IN  IF idx = Zero
           THEN Raise(Fetched, PC') /\ M' = M
           ELSE IF ~Below(idx, memarr_count)
           THEN \* M[idx].active is read past the table: the read traps,
                \* finds a zero byte and raises, or finds a non-zero byte
                \* and the store of false lands outside every array
                /\ Raise(Fetched, PC') \/ Trap \/ Continue
                /\ M' = M
           ELSE IF ~M[Lo(idx)].active
           THEN Raise(Fetched, PC') /\ M' = M
           ELSE M' = [M EXCEPT ![Lo(idx)].active = FALSE] /\ Continue
    /\ UNCHANGED <<R, memarr_count, halted, m0, heap, eof>>

\* isprint(c), where the C library defines it: c an unsigned char or EOF.
IsPrint(w) == Below(w, 256) /\ Lo(w) >= 32 /\ Lo(w) <= 126

Output ==
    /\ Fetch(10)
    /\ PC' = PCInc(PC)
    /\ LET c == R[RegC(Fetched)]
       IN  IF Below(c, 256) \/ c = AllOnes
           THEN /\ out' = out \o (IF IsPrint(c) THEN <<Lo(c)>> ELSE <<48, 120>> \o FmtX02(c))
                /\ status' = status
           ELSE \* isprint of any other int is undefined
                \/ out' = out \o <<Lo(c) % 256>> /\ status' = status
                \/ out' = out \o <<48, 120>> \o FmtX02(c) /\ status' = status
                \/ Trap
    /\ UNCHANGED <<R, M, memarr_count, halted, m0, heap, eof>>

Input ==
    /\ Fetch(11)
    /\ PC' = PCInc(PC)
    /\ \/ /\ ~eof
          /\ \E c \in InputBytes : R' = [R EXCEPT ![RegC(Fetched)] = W(0, c % 256)]
          /\ eof' = eof
       \/ /\ R' = [R EXCEPT ![RegC(Fetched)] = AllOnes]
          /\ eof' = TRUE
    /\ UNCHANGED <<M, memarr_count, halted, m0, heap, status, out>>

\* The platter after the Load Program itself.
LoadTargetNext == PCInc(PC)

\* PC = R[reg_c]
LoadTarget == R[RegC(Fetched)]

LoadProg ==
    /\ Fetch(12)
    /\ LET idx == R[RegB(Fetched)]
       IN  IF Below(idx, memarr_count)
           THEN /\ M' = [M EXCEPT ![0].inst = M[Lo(idx)].inst, ![0].len = M[Lo(idx)].len]
                /\ PC' = LoadTarget
                /\ Continue
           ELSE \* Mem m = M[idx] is read past the table: the read traps, or
                \* M[0] takes the pointer and the length found there
                \/ M' = M /\ PC' = PCInc(PC) /\ Trap
                \/ \E n \in Garbage :
                       /\ M' = [M EXCEPT ![0].inst = Wild, ![0].len = n]
                       /\ PC' = LoadTarget
                       /\ Continue
    /\ UNCHANGED <<R, memarr_count, halted, m0, heap, eof>>

Orthog ==
    /\ Fetch(13)
    /\ PC' = PCInc(PC)
    /\ R' = [R EXCEPT ![OrthReg(Fetched)] = OrthVal(Fetched)]
    /\ UNCHANGED <<M, memarr_count, halted, m0, heap, status, out, eof>>

\* default: EXCEPTION(inst)
Illegal ==
    /\ \/ Fetch(14)
       \/ Fetch(15)
    /\ PC' = PCInc(PC)
    /\ Raise(Fetched, PC')
    /\ UNCHANGED <<R, M, memarr_count, halted, m0, heap, eof>>

Next ==
    \/ OutOfCode
    \/ CMov
    \/ ArrayIndex
    \/ ArrayAmend
    \/ Add
    \/ Mul
    \/ Div
    \/ Nand
    \/ Halt
    \/ Alloc
    \/ Abandon
    \/ Output
    \/ Input
    \/ LoadProg
    \/ Orthog
    \/ Illegal

Spec == Init /\ [][Next]_vars

(***************************************************************************)
(* Properties                                                              *)
(***************************************************************************)
\* The platters of array i of the table.
Seg(i) == Platters(M[i])

\* The step fetched an instruction of operator op and dispatched it.
Executed(op) == fetches' = fetches + 1 /\ OpNum(inst') = op

\* The step ended the run abnormally: EXCEPTION's abort, or a kill by signal.
Aborts == status' \in {"faulted", "trapped"}

\* id names an entry of the table mm of count entries that is active.
ActiveIn(mm, count, id) == Below(id, count) /\ mm[Lo(id)].active

Active(id) == ActiveIn(M, memarr_count, id)

\* The machine is about to start a pass of the loop.
Running == status = "running" /\ ~halted

\* The last instruction executed was a Load Program of the active array
\* id # 0, and the machine goes on.
JustLoaded(id) ==
    /\ Running
    /\ fetches > 0
    /\ OpNum(inst) = 12
    /\ R[RegB(inst)] = id
    /\ id # Zero
    /\ Active(id)

Ids == {OfNat(n) : n \in 0 .. MaxSegs}

\* C1: after a Load Program of an active array id # 0 with R[C] = k, the
\* next instruction fetched is platter k of that array (stated for k inside
\* the array; C3 states the test of PC against its length).
C1_NextFetchFromLoaded ==
    [][\A id \in Ids :
         JustLoaded(id) /\ Below(PC, Len(Seg(Lo(id)))) =>
            fetches' = fetches + 1 /\ inst' = Seg(Lo(id))[Lo(PC) + 1]]_vars

\* C2: after a Load Program of array id # 0, a Segment Write to id leaves
\* every platter of array 0 as it was, and a Segment Write to array 0 leaves
\* every platter of id as it was.
C2_DeepCopy ==
    [][\A id \in Ids :
         JustLoaded(id) /\ Executed(2) /\ status' = "running" =>
            /\ R[RegA(inst')] = id => Seg(0)' = Seg(0)
            /\ R[RegA(inst')] = Zero => Seg(Lo(id))' = Seg(Lo(id))]_vars

\* C3: a pass of the loop that starts with PC >= the length of array 0
\* faults and fetches nothing (stated for an array 0 that is the initial
\* program or was loaded from an array of the table).
C3_FetchInsideSegment0 ==
    [][Running /\ M[0].inst # Wild /\ ~WLess(PC, M[0].len) =>
         fetches' = fetches /\ Aborts]_vars

\* C4: a Divide with R[C] = 0 faults and writes no register.
C4_DivideByZeroFaults ==
    [][Executed(5) /\ R[RegC(inst')] = Zero => Aborts /\ R' = R]_vars

\* C5: a Segment Read or Segment Write of an active array at an offset not
\* below its length faults; no register and no platter changes.
C5_OffsetOutOfBoundsFaults ==
    [][\A op \in {1, 2} :
         LET id  == IF op = 1 THEN R[RegB(inst')] ELSE R[RegA(inst')]
             off == IF op = 1 THEN R[RegC(inst')] ELSE R[RegB(inst')]
         IN  Executed(op) /\ Active(id) /\ ~WLess(off, M[Lo(id)].len) =>
                Aborts /\ R' = R /\ heap' = heap]_vars

\* C6: a Segment Read, Segment Write or Deallocate of an identifier that is
\* not active (abandoned, or not below the allocation counter) faults and
\* changes no array.
C6_InactiveIdentifierFaults ==
    [][\A op \in {1, 2, 9} :
         LET id == CASE op = 1 -> R[RegB(inst')]
                     [] op = 2 -> R[RegA(inst')]
                     [] op = 9 -> R[RegC(inst')]
         IN  Executed(op) /\ ~Active(id) => Aborts /\ R' = R /\ heap' = heap /\ M' = M]_vars

\* C7: a Load Program of an identifier that is not active does not replace
\* array 0, and the run does not go on (stated for an identifier below the
\* allocation counter, that is, an abandoned array).
C7_LoadOfInactiveRefused ==
    [][/\ Executed(12)
       /\ Below(R[RegB(inst')], memarr_count)
       /\ ~Active(R[RegB(inst')])
       => M'[0] = M[0] /\ Aborts]_vars

\* C8: the identifier Allocate places in R[B] is not 0, names no array that
\* was active, and names afterwards an active array of R[C] platters, all 0.
C8_AllocateFreshZeroed ==
    [][Executed(8) =>
         LET id   == R'[RegB(inst')]
             size == R[RegC(inst')]
             new  == PlattersIn(heap', M'[Lo(id)])
         IN  /\ id # Zero
             /\ ~Active(id)
             /\ ActiveIn(M', memarr_count', id)
             /\ M'[Lo(id)].len = size
             /\ OfNat(Len(new)) = size
             /\ \A k \in 1 .. Len(new) : new[k] = Zero]_vars

\* The offset off lies below the length of the active array id and inside
\* the buffer calloc gave it.
Inside(id, off) ==
    /\ Active(id)
    /\ WLess(off, M[Lo(id)].len)
    /\ Below(off, Len(Seg(Lo(id))))

\* C9: a Segment Write of w to offset i of an active array id, i below its
\* length, makes platter i of id hold w and changes no other platter of id
\* and no platter of any other array; a Segment Read of (id, i) delivers the
\* platter held there.
C9_WriteReadRoundTrip ==
    [][/\ \A id \in Ids :
            Executed(2) /\ R[RegA(inst')] = id /\ Inside(id, R[RegB(inst')]) =>
               /\ status' = "running"
               /\ Seg(Lo(id))' = [Seg(Lo(id)) EXCEPT ![Lo(R[RegB(inst')]) + 1] = R[RegC(inst')]]
               /\ \A j \in 0 .. (memarr_count - 1) : j # Lo(id) => Seg(j)' = Seg(j)
       /\ \A id \in Ids :
            Executed(1) /\ R[RegB(inst')] = id /\ Inside(id, R[RegC(inst')]) =>
               /\ status' = "running"
               /\ R' = [R EXCEPT ![RegA(inst')] = Seg(Lo(id))[Lo(R[RegC(inst')]) + 1]]]_vars

\* C10: the word (13 << 28) | (r << 25) | v sets R[r] = v, leaves the other
\* registers and every array as they were, and advances PC by one.
C10_LoadImmediate ==
    [][Executed(13) =>
         \A r \in Regs : \A vh \in 0 .. 511 :
            inst' = Imm(r, W(vh, Lo(inst'))) =>
               /\ R' = [R EXCEPT ![r] = W(vh, Lo(inst'))]
               /\ M' = M
               /\ heap' = heap
               /\ PC' = PCInc(PC)
               /\ status' = "running"]_vars

\* An orthography instruction has loaded the largest value into a register
\* other than the one its bits 8..6 name.
C10_Witness ==
    /\ Running
    /\ fetches > 0
    /\ OpNum(inst) = 13
    /\ OrthReg(inst) # RegA(inst)
    /\ R[OrthReg(inst)] = W(511, H16 - 1)

(***************************************************************************)
(* Arithmetic modulo 2^32 on the four bytes of a platter, least            *)
(* significant first: the reference the machine's sums and products are    *)
(* compared with.                                                          *)
(***************************************************************************)
BytesLE(w) == <<Lo(w) % 256, Lo(w) \div 256, Hi(w) % 256, Hi(w) \div 256>>

FromBytesLE(b) == W(b[3] + 256 * b[4], b[1] + 256 * b[2])

\* (a + b) mod 2^32, byte by byte with carry.
SumMod32(a, b) ==
    LET x  == BytesLE(a)
        y  == BytesLE(b)
        s1 == x[1] + y[1]
        s2 == x[2] + y[2] + s1 \div 256
        s3 == x[3] + y[3] + s2 \div 256
        s4 == x[4] + y[4] + s3 \div 256
    IN  FromBytesLE(<<s1 % 256, s2 % 256, s3 % 256, s4 % 256>>)

\* (a * b) mod 2^32, by columns of byte products.
ProductMod32(a, b) ==
    LET x  == BytesLE(a)
        y  == BytesLE(b)
        c1 == x[1] * y[1]
        c2 == x[1] * y[2] + x[2] * y[1] + c1 \div 256
        c3 == x[1] * y[3] + x[2] * y[2] + x[3] * y[1] + c2 \div 256
        c4 == x[1] * y[4] + x[2] * y[3] + x[3] * y[2] + x[4] * y[1] + c3 \div 256
    IN  FromBytesLE(<<c1 % 256, c2 % 256, c3 % 256, c4 % 256>>)

\* C11: Add and Multiply never fault; they store (R[B] + R[C]) mod 2^32 and
\* (R[B] * R[C]) mod 2^32 in R[A] and change no other register.  So the
\* all-ones platter an exhausted Input delivers, added to 1, gives 0.
C11_AddMulWrap ==
    [][/\ Executed(3) =>
            /\ status' = "running"
            /\ R' = [R EXCEPT ![RegA(inst')] = SumMod32(R[RegB(inst')], R[RegC(inst')])]
            /\ ({R[RegB(inst')], R[RegC(inst')]} = {AllOnes, W(0, 1)} => R'[RegA(inst')] = Zero)
       /\ Executed(4) =>
            /\ status' = "running"
            /\ R' = [R EXCEPT ![RegA(inst')] = ProductMod32(R[RegB(inst')], R[RegC(inst')])]]_vars

\* An Add of the all-ones platter of an exhausted Input and a register
\* holding 1 has left 0 in a third register.
C11_Witness ==
    /\ Running
    /\ fetches > 0
    /\ OpNum(inst) = 3
    /\ eof
    /\ RegA(inst) \notin {RegB(inst), RegC(inst)}
    /\ {R[RegB(inst)], R[RegC(inst)]} = {AllOnes, W(0, 1)}
    /\ R[RegA(inst)] = Zero

\* C12: the console receives one byte, R[C], for each Output executed and
\* nothing from any other instruction; so the program [R0 := 72; Output R0;
\* Halt] ends halted with the console holding the single byte 72.
C12_OutputBytesOnly ==
    [][/\ Executed(10) /\ Below(R[RegC(inst')], 256) /\ ~Aborts =>
            out' = Append(out, Lo(R[RegC(inst')]))
       /\ ~Executed(10) /\ ~Aborts => out' = out
       /\ prog = FileOf(<<Imm(0, W(0, 72)), Std(10, 0, 0, 0), Halt7>>) /\ status' = "halted" =>
            out' = <<72>>]_vars

\* C13: Input sets R[C] to a byte (0..255), or to 0xFFFFFFFF when the input
\* stream is exhausted; it changes no other register and no array, and PC
\* advances by one.
C13_InputByteOrAllOnes ==
    [][Executed(11) =>
         /\ status' = "running"
         /\ \A r \in Regs : r # RegC(inst') => R'[r] = R[r]
         /\ IF eof' THEN R'[RegC(inst')] = <<65535, 65535>>
                    ELSE Hi(R'[RegC(inst')]) = 0 /\ Lo(R'[RegC(inst')]) \in 0 .. 255
         /\ M' = M
         /\ heap' = heap
         /\ PC' = PCInc(PC)]_vars

\* An Input has met the end of the stream after an earlier Input delivered
\* the byte 72 to another register.
C13_Witness ==
    /\ Running
    /\ fetches > 1
    /\ OpNum(inst) = 11
    /\ eof
    /\ R[RegC(inst)] = <<65535, 65535>>
    /\ \E r \in Regs : r # RegC(inst) /\ R[r] = W(0, 72)

\* C14: started on a buffer b whose length is a positive multiple of 4, the
\* machine is running with PC = 0, every register 0, array 0 the only array,
\* active, of Len(b) / 4 platters, platter i being
\* b[4i] * 2^24 + b[4i+1] * 2^16 + b[4i+2] * 2^8 + b[4i+3]; started on a buffer
\* of any other length, the machine is never running.
C14_Startup ==
    IF Len(prog) # 0 /\ Len(prog) % 4 = 0
    THEN fetches = 0 =>
           /\ Running
           /\ PC = Zero
           /\ \A r \in Regs : R[r] = Zero
           /\ memarr_count = 1
           /\ DOMAIN M = {0}
           /\ M[0].active
           /\ M[0].len = OfNat(Len(prog) \div 4)
           /\ Len(Seg(0)) = Len(prog) \div 4
           /\ \A i \in 0 .. (Len(prog) \div 4 - 1) :
                 BytesLE(Seg(0)[i + 1]) =
                    <<prog[4 * i + 4], prog[4 * i + 3], prog[4 * i + 2], prog[4 * i + 1]>>
    ELSE ~Running

\* The machine has just been started on a program whose first platter is
\* 0xD0000048, read from the bytes D0 00 00 48.
C14_Witness ==
    /\ fetches = 0
    /\ Running
    /\ Len(prog) = 12
    /\ prog[1] = 208
    /\ prog[4] = 72
    /\ Seg(0)[1] = <<53248, 72>>

\* C15: once Halt has executed or a fault has been raised, no instruction is
\* fetched and PC, the registers and the arrays never change again; Halt
\* changes the status of the machine and nothing else (PC stands one past
\* the Halt, where the fetch left it).
C15_Terminal ==
    [][/\ status # "running" \/ (fetches > 0 /\ OpNum(inst) = 7) =>
            UNCHANGED <<fetches, inst, PC, R, M, memarr_count, heap, status>>
       /\ Executed(7) =>
            /\ status' = "halted"
            /\ halted'
            /\ PC' = PCInc(PC)
            /\ UNCHANGED <<R, M, memarr_count, heap>>]_vars

\* Halt has executed with registers loaded and an instruction still in
\* front of PC.
C15_Witness ==
    /\ status = "halted"
    /\ OpNum(inst) = 7
    /\ WLess(PC, M[0].len)
    /\ R[1] # Zero

\* C16: a fetched word whose bits 31..28 are 14 or 15 faults, whatever its
\* other 28 bits, and changes no register and no array; a word whose bits
\* 31..28 are 0..13 faults only for its operands: a Segment Read, Segment
\* Write or Deallocate of an identifier that is not active, or a Deallocate
\* of 0.
C16_IllegalOpcode ==
    [][fetches' = fetches + 1 =>
         LET op == Hi(inst') \div 4096
         IN  /\ op \in {14, 15} =>
                  /\ status' = "faulted"
                  /\ UNCHANGED <<R, M, memarr_count, heap>>
             /\ op \in 0 .. 13 /\ status' = "faulted" =>
                  \/ op = 1 /\ ~Active(R[RegB(inst')])
                  \/ op = 2 /\ ~Active(R[RegA(inst')])
                  \/ op = 9 /\ (R[RegC(inst')] = Zero \/ ~Active(R[RegC(inst')]))]_vars

\* The word 0xFFFFFE..: operator 15 with every other bit above bit 8 set has
\* faulted, R1 = 1 and the array made before it still in place.
C16_Witness ==
    /\ status = "faulted"
    /\ fetches = 4
    /\ Hi(inst) = 65535
    /\ Lo(inst) >= 65024
    /\ R[1] = W(0, 1)
    /\ memarr_count = 2
    /\ M[1].active

\* C17: the k-th Allocate of a run delivers the identifier k, whatever was
\* deallocated before it, and an identifier that is not active (it was
\* deallocated) never becomes active again.
C17_IdentifiersNeverReused ==
    [][/\ Executed(8) =>
            /\ R'[RegB(inst')] = OfNat(memarr_count)
            /\ memarr_count' = memarr_count + 1
       /\ \A id \in 1 .. (memarr_count - 1) : ~M[id].active => ~M'[id].active]_vars

\* C18: array 0 is active in every reachable state of a started machine: a
\* Deallocate of identifier 0 faults and leaves it active, and no other
\* instruction clears its flag.
C18_Segment0Active ==
    memarr_count >= 1 => M[0].active

\* C19: a Load Program with R[B] = 0 leaves the platters and the length of
\* array 0, every other array and every register as they were; it sets
\* PC = R[C] and does nothing else.
C19_LoadZeroIsJump ==
    [][Executed(12) /\ R[RegB(inst')] = Zero =>
         /\ status' = "running"
         /\ PC' = R[RegC(inst')]
         /\ R' = R
         /\ memarr_count' = memarr_count
         /\ \A j \in 0 .. (memarr_count - 1) :
               /\ M'[j].len = M[j].len
               /\ M'[j].active = M[j].active
               /\ PlattersIn(heap', M'[j]) = Platters(M[j])]_vars

\* A Load Program of array 0 has moved PC back to platter 1 while a second
\* array exists.
C19_Witness ==
    /\ Running
    /\ fetches = 4
    /\ OpNum(inst) = 12
    /\ R[RegB(inst)] = Zero
    /\ R[RegC(inst)] = W(0, 1)
    /\ PC = W(0, 1)
    /\ memarr_count = 2

\* C20: whether or not a Load Program came before, when a Segment Write has
\* just stored w in the platter of array 0 that PC points at, the next
\* instruction fetched, decoded and executed is w.
C20_FetchSeesWrite ==
    [][/\ Running
       /\ fetches > 0
       /\ OpNum(inst) = 2
       /\ R[RegA(inst)] = Zero
       /\ R[RegB(inst)] = PC
       /\ Inside(Zero, PC)
       /\ Seg(0)[Lo(PC) + 1] = R[RegC(inst)]
       => fetches' = fetches + 1 /\ inst' = R[RegC(inst)]]_vars

====
